---- MODULE Spec2Model ----
(***************************************************************************)
(* Model of mmp.py: the Dash application that loads the table of Peruvian  *)
(* mining sites (geocoding it on the first run), draws it on a map,        *)
(* filters it (update_map) and shows the details of a clicked point        *)
(* (display_click_data).                                                   *)
(*                                                                         *)
(* Text is modelled as a sequence of one-character strings, so that        *)
(* concatenation, lower-casing, substring search and regular-expression    *)
(* search are computed character by character.                             *)
(***************************************************************************)
EXTENDS Integers, Sequences, FiniteSets, TLC

VARIABLES
    rawFile,    \* minas_peru_completo_reordenado.xlsx: NoFile or a table
    geoFile,    \* minas_peru_geocodificado.xlsx: NoFile or a table
    pc,         \* the process: "start", "serving" or "crashed"
    df_minas,   \* the module-level DataFrame (NoDf before load / when load returned None)
    calls,      \* the location strings passed to geocode() by this run, in order
    replies,    \* what the provider answered to each of the calls of this run
    stdout,     \* the messages printed by this run
    loads,      \* one entry per finished load, oldest first: the path it took and its calls
    criteria,   \* the four filter inputs of the last update_map call
    figure,     \* the rows (dff) drawn on the map: the output 'mapa-minas'.figure
    panel,      \* the output 'info-mina-div'.children
    clickData,  \* the input of the last display_click_data call
    last        \* the handler that ran last in this run and the exception it raised ("none" if none)

vars == <<rawFile, geoFile, pc, df_minas, calls, replies, stdout, loads,
          criteria, figure, panel, clickData, last>>

-----------------------------------------------------------------------------
(* Bounds of the model *)

\* the longest table (number of rows) of the files the program-level specification starts from
MaxRows == 2
\* the number of program runs (loads) a behaviour holds
MaxRuns == 2
\* the longest name query typed into 'filtro-nombre'
MaxQueryLen == 2

-----------------------------------------------------------------------------
(* Cells, optional values *)

\* a missing cell: read_excel yields NaN for a blank cell
NaN == [na |-> TRUE, v |-> <<>>]
\* a text cell holding the characters s
Str(s) == [na |-> FALSE, v |-> s]
\* a numeric cell (its value kept as a one-element sequence, so that every cell's v
\* is a sequence)
Num(x) == [na |-> FALSE, v |-> <<x>>]

\* Python's None, and a value, for callback inputs
NoneVal == [some |-> FALSE, v |-> <<>>]
Some(s) == [some |-> TRUE, v |-> s]
\* clickData: None, or a click whose points[0] has customdata [nombre]; point is the
\* index label of the row the clicked point was drawn from (-1: not a drawn point)
NoClick == [some |-> FALSE, v |-> <<>>, point |-> -1]
ClickOn(nombre, point) == [some |-> TRUE, v |-> nombre, point |-> point]
\* Python truthiness of a callback input: None and "" are falsy
Truthy(o) == o.some /\ o.v # <<>>

NoFile == [exists |-> FALSE, cols |-> {}, rows |-> <<>>]
File(cols, rows) == [exists |-> TRUE, cols |-> cols, rows |-> rows]
NoDf == [isdf |-> FALSE, cols |-> {}, rows |-> <<>>]

-----------------------------------------------------------------------------
(* Text constants of the source *)

s_nan == <<"n", "a", "n">>
No_disponible == <<"N", "o", " ", "d", "i", "s", "p", "o", "n", "i", "b", "l", "e">>
s_http == <<"h", "t", "t", "p">>
s_sep == <<",", " ">>
s_Peru == <<",", " ", "P", "e", "r", "ú">>

cols_necesarias == {"Nombre", "Empresa", "Región", "Mineral principal",
                    "Minerales secundarios", "Tipo de yacimiento", "Link", "Tipo Cliente"}

\* str.lower() / re.IGNORECASE folding, on the characters the model uses
lower(c) ==
    CASE c = "A" -> "a"
      [] c = "B" -> "b"
      [] c = "C" -> "c"
      [] c = "P" -> "p"
      [] c = "N" -> "n"
      [] OTHER -> c

-----------------------------------------------------------------------------
(* DataFrame operations *)

\* pd.read_excel: the rows of the file under a fresh RangeIndex 0..n-1
read_excel(file) ==
    [isdf |-> TRUE, cols |-> file.cols,
     rows |-> [i \in 1..Len(file.rows) |-> [index |-> i - 1, cell |-> file.rows[i]]]]

\* df.to_excel(path, index=False): the cells without the index
to_excel(df) ==
    File(df.cols, [i \in 1..Len(df.rows) |-> df.rows[i].cell])

\* df[name] = values (a list, one value per row) or a scalar broadcast to every row
SetColumn(df, name, values) ==
    [isdf |-> TRUE, cols |-> df.cols \cup {name},
     rows |-> [i \in 1..Len(df.rows) |->
                [index |-> df.rows[i].index,
                 cell  |-> [c \in df.cols \cup {name} |->
                              IF c = name THEN values[i] ELSE df.rows[i].cell[c]]]]]

\* Series.astype(str) on one cell: NaN becomes the text 'nan'
astype_str(cell) == IF cell.na THEN Str(s_nan) ELSE Str(cell.v)

\* Series.replace('nan', 'No disponible') on one cell: whole-value replacement
replace_nan(cell) == IF (~cell.na) /\ cell.v = s_nan THEN Str(No_disponible) ELSE cell

\* df[mask]: boolean indexing, the rows whose mask entry is True, in order
RECURSIVE BoolIndex(_, _, _)
BoolIndex(rows, mask, i) ==
    IF i > Len(rows) THEN <<>>
    ELSE (IF mask[i] THEN <<rows[i]>> ELSE <<>>) \o BoolIndex(rows, mask, i + 1)

\* dropna as it would be with how='all': a row is dropped only when both are missing
dropna_how_all(df) ==
    LET mask == [i \in 1..Len(df.rows) |->
                    ~(df.rows[i].cell["Latitud"].na /\ df.rows[i].cell["Longitud"].na)]
    IN  [df EXCEPT !.rows = BoolIndex(df.rows, mask, 1)]

\* df.dropna(subset=['Latitud', 'Longitud']): drop a row when either is missing
dropna(df) ==
    LET mask == [i \in 1..Len(df.rows) |->
                    ~(df.rows[i].cell["Latitud"].na \/ df.rows[i].cell["Longitud"].na)]
    IN  [df EXCEPT !.rows = BoolIndex(df.rows, mask, 1)]

-----------------------------------------------------------------------------
(* PASO 1: cargar_y_geocodificar_datos *)

ruta_geocodificado == "minas_peru_geocodificado.xlsx"
ruta_excel == "minas_peru_completo_reordenado.xlsx"

msg_preexistentes == [text |-> "Se cargó el archivo con coordenadas preexistentes.", ruta |-> ""]
msg_no_geocodificado == [text |-> "No se encontró archivo geocodificado. Procediendo a obtener coordenadas...", ruta |-> ""]
msg_error_base == [text |-> "Error: No se encontró el archivo base en la ruta", ruta |-> ruta_excel]
msg_guardadas == [text |-> "Coordenadas guardadas en 'minas_per_geocodificado.xlsx'.", ruta |-> ""]

\* the answers of the geocoding provider to one call
NoMatch == [kind |-> "none", lat |-> 0, lon |-> 0]
Raises == [kind |-> "raise", lat |-> 0, lon |-> 0]
Location(lat, lon) == [kind |-> "location", lat |-> lat, lon |-> lon]

\* df["Ubicación"] for one row: Nombre + ", " + Región + ", Perú"
Ubicacion(cell) ==
    Str(astype_str(cell["Nombre"]).v \o s_sep \o astype_str(cell["Región"]).v \o s_Peru)

EmptyAcc == [latitudes |-> <<>>, longitudes |-> <<>>, calls |-> <<>>, replies |-> <<>>]

\* the loop as it would be if a failed lookup stored the coordinates 0, 0 instead of NaN
RECURSIVE GeocodeLoop_zero(_, _, _, _)
GeocodeLoop_zero(locs, oracle, i, acc) ==
    IF i > Len(locs) THEN acc
    ELSE LET location == oracle[i]
             found == location.kind = "location"
         IN  GeocodeLoop_zero(locs, oracle, i + 1,
                [latitudes  |-> Append(acc.latitudes, IF found THEN Num(location.lat) ELSE Num(0)),
                 longitudes |-> Append(acc.longitudes, IF found THEN Num(location.lon) ELSE Num(0)),
                 calls      |-> Append(acc.calls, locs[i]),
                 replies    |-> Append(acc.replies, location)])

\* the loop as it would be with a cache keyed by the location string: a string seen
\* before reuses the coordinates stored for its first row and makes no call
RECURSIVE GeocodeLoop_memo(_, _, _, _)
GeocodeLoop_memo(locs, oracle, i, acc) ==
    IF i > Len(locs) THEN acc
    ELSE LET seen == { k \in 1..(i - 1) : locs[k] = locs[i] }
             location == oracle[i]
             found == location.kind = "location"
         IN  IF seen # {}
             THEN LET k == CHOOSE x \in seen : \A y \in seen : x <= y
                  IN  GeocodeLoop_memo(locs, oracle, i + 1,
                         [acc EXCEPT !.latitudes = Append(@, acc.latitudes[k]),
                                     !.longitudes = Append(@, acc.longitudes[k])])
             ELSE GeocodeLoop_memo(locs, oracle, i + 1,
                    [latitudes  |-> Append(acc.latitudes, IF found THEN Num(location.lat) ELSE NaN),
                     longitudes |-> Append(acc.longitudes, IF found THEN Num(location.lon) ELSE NaN),
                     calls      |-> Append(acc.calls, locs[i]),
                     replies    |-> Append(acc.replies, location)])

\* The geocoding loop over df["Ubicación"]: geocode(loc) is called for every row in turn;
\* oracle[i] is what the provider answers to the call made for row i.
\* A location gives its coordinates, no match and an exception both give NaN.
RECURSIVE GeocodeLoop(_, _, _, _)
GeocodeLoop(locs, oracle, i, acc) ==
    IF i > Len(locs) THEN acc
    ELSE LET location == oracle[i]
             found == location.kind = "location"
         IN  GeocodeLoop(locs, oracle, i + 1,
                [latitudes  |-> Append(acc.latitudes, IF found THEN Num(location.lat) ELSE NaN),
                 longitudes |-> Append(acc.longitudes, IF found THEN Num(location.lon) ELSE NaN),
                 calls      |-> Append(acc.calls, locs[i]),
                 replies    |-> Append(acc.replies, location)])

\* the loop over cols_necesarias: an existing column is cast to text and its 'nan'
\* replaced by the sentinel, a column the table lacks is created holding the sentinel
Normalizar(df) ==
    [isdf |-> TRUE, cols |-> df.cols \cup cols_necesarias,
     rows |-> [i \in 1..Len(df.rows) |->
                [index |-> df.rows[i].index,
                 cell  |-> [c \in df.cols \cup cols_necesarias |->
                              IF c \in cols_necesarias
                              THEN IF c \in df.cols
                                   THEN replace_nan(astype_str(df.rows[i].cell[c]))
                                   ELSE Str(No_disponible)
                              ELSE df.rows[i].cell[c]]]]]

\* what the function leaves behind: its return value (NoDf for None), the exception it
\* raised ("none" if it returned), the geocoded file, the calls made and the output
LoadResult(ret, raised, geo, acc, out, path) ==
    [ret |-> ret, raised |-> raised, geoFile |-> geo, calls |-> acc.calls,
     replies |-> acc.replies, stdout |-> out, path |-> path]

\* lines 56-65: dropna, then the normalisation of the text columns
Finish(df, geo, acc, out, path) ==
    IF {"Latitud", "Longitud"} \subseteq df.cols
    THEN LoadResult(Normalizar(dropna(df)), "none", geo, acc, out, path)
    ELSE LoadResult(NoDf, "KeyError", geo, acc, out, path)

\* lines 36-54 as they would be without the df.to_excel call
Geocodificar_nosave(df0, oracle) ==
    IF ~({"Nombre", "Región"} \subseteq df0.cols)
    THEN LoadResult(NoDf, "KeyError", NoFile, EmptyAcc, <<msg_no_geocodificado>>, "raw")
    ELSE LET n   == Len(df0.rows)
             df1 == SetColumn(df0, "Ubicación", [i \in 1..n |-> Ubicacion(df0.rows[i].cell)])
             acc == GeocodeLoop([i \in 1..n |-> df1.rows[i].cell["Ubicación"].v], oracle, 1, EmptyAcc)
             df2 == SetColumn(df1, "Latitud", acc.latitudes)
             df3 == SetColumn(df2, "Longitud", acc.longitudes)
         IN  Finish(df3, NoFile, acc, <<msg_no_geocodificado, msg_guardadas>>, "raw")

\* lines 36-54: the Ubicación column, the geocoding loop, the two new columns, the save
Geocodificar(df0, oracle) ==
    IF ~({"Nombre", "Región"} \subseteq df0.cols)
    THEN \* df["Nombre"] / df["Región"] raises KeyError at line 36
         LoadResult(NoDf, "KeyError", NoFile, EmptyAcc, <<msg_no_geocodificado>>, "raw")
    ELSE LET n   == Len(df0.rows)
             df1 == SetColumn(df0, "Ubicación", [i \in 1..n |-> Ubicacion(df0.rows[i].cell)])
             acc == GeocodeLoop([i \in 1..n |-> df1.rows[i].cell["Ubicación"].v], oracle, 1, EmptyAcc)
             df2 == SetColumn(df1, "Latitud", acc.latitudes)
             df3 == SetColumn(df2, "Longitud", acc.longitudes)
         IN  Finish(df3, to_excel(df3), acc, <<msg_no_geocodificado, msg_guardadas>>, "raw")

\* the function as it would be if the missing base file gave an empty table, not None
cargar_devuelve_vacio(raw, geo, oracle) ==
    IF geo.exists
    THEN Finish(read_excel(geo), geo, EmptyAcc, <<msg_preexistentes>>, "geocoded")
    ELSE IF ~raw.exists
         THEN LoadResult([isdf |-> TRUE, cols |-> cols_necesarias \cup {"Latitud", "Longitud"}, rows |-> <<>>],
                         "none", geo, EmptyAcc, <<msg_no_geocodificado, msg_error_base>>, "missing")
         ELSE Geocodificar(read_excel(raw), oracle)

cargar_y_geocodificar_datos(raw, geo, oracle) ==
    IF geo.exists
    THEN Finish(read_excel(geo), geo, EmptyAcc, <<msg_preexistentes>>, "geocoded")
    ELSE IF ~raw.exists
         THEN LoadResult(NoDf, "none", geo, EmptyAcc, <<msg_no_geocodificado, msg_error_base>>, "missing")
         ELSE Geocodificar(read_excel(raw), oracle)

-----------------------------------------------------------------------------
(* PASO 3: the callbacks *)

\* Series.str.contains(pat, case=False, na=False) keeps the default regex=True:
\* pat is compiled with re.IGNORECASE and searched in each name.
\* The pattern language modelled: '.' (any character), '$' (end of the text),
\* '(' (opens a group) and literal characters.

\* re.compile fails on a group that is never closed; no modelled pattern holds ')'
re_error(pat) == \E i \in 1..Len(pat) : pat[i] = "("

\* the compiled pattern matches a prefix of text
RECURSIVE re_match(_, _)
re_match(pat, text) ==
    IF pat = <<>> THEN TRUE
    ELSE IF Head(pat) = "$" THEN text = <<>> /\ re_match(Tail(pat), text)
    ELSE IF text = <<>> THEN FALSE
    ELSE IF Head(pat) = "." THEN re_match(Tail(pat), Tail(text))
    ELSE lower(Head(pat)) = lower(Head(text)) /\ re_match(Tail(pat), Tail(text))

\* regex.search(text): a match starting at any position
re_search(pat, text) ==
    \E i \in 0..Len(text) : re_match(pat, SubSeq(text, i + 1, Len(text)))

\* dff[dff[col] == value]
FilterEq(rows, col, value) ==
    BoolIndex(rows, [i \in 1..Len(rows) |-> rows[i].cell[col].v = value], 1)

\* dff[dff['Nombre'].str.contains(nombre_buscado, case=False, na=False)]
FilterContains(rows, pat) ==
    BoolIndex(rows, [i \in 1..Len(rows) |-> re_search(pat, rows[i].cell["Nombre"].v)], 1)

\* update_map as it would be if the mineral filter were applied to the whole table
\* instead of to the rows the region filter kept
update_map_mineral_de_todo(df, c) ==
    LET dff0 == df.rows
        dff1 == IF Truthy(c.region) THEN FilterEq(dff0, "Región", c.region.v) ELSE dff0
        dff2 == IF Truthy(c.mineral) THEN FilterEq(dff0, "Mineral principal", c.mineral.v) ELSE dff1
        dff3 == IF Truthy(c.cliente) THEN FilterEq(dff2, "Tipo Cliente", c.cliente.v) ELSE dff2
    IN  IF Truthy(c.nombre)
        THEN IF re_error(c.nombre.v)
             THEN [raised |-> "re.error", dff |-> <<>>]
             ELSE [raised |-> "none", dff |-> FilterContains(dff3, c.nombre.v)]
        ELSE [raised |-> "none", dff |-> dff3]

\* update_map up to the figure: the rows of dff, or the exception raised
update_map(df, c) ==
    LET dff0 == df.rows
        dff1 == IF Truthy(c.region) THEN FilterEq(dff0, "Región", c.region.v) ELSE dff0
        dff2 == IF Truthy(c.mineral) THEN FilterEq(dff1, "Mineral principal", c.mineral.v) ELSE dff1
        dff3 == IF Truthy(c.cliente) THEN FilterEq(dff2, "Tipo Cliente", c.cliente.v) ELSE dff2
    IN  IF Truthy(c.nombre)
        THEN IF re_error(c.nombre.v)
             THEN [raised |-> "re.error", dff |-> <<>>]
             ELSE [raised |-> "none", dff |-> FilterContains(dff3, c.nombre.v)]
        ELSE [raised |-> "none", dff |-> dff3]

\* link.startswith('http')
startswith(text, prefix) ==
    Len(text) >= Len(prefix) /\ SubSeq(text, 1, Len(prefix)) = prefix

\* the children of 'info-mina-div' before any click
PanelDefault == [kind |-> "default", index |-> -1, info |-> <<>>, link |-> "none"]

\* display_click_data as it would be with .iloc[-1]: the last of the rows of that name
display_click_data_ultimo(df, cd) ==
    IF ~cd.some THEN [raised |-> "none", children |-> PanelDefault]
    ELSE LET nombre_mina == cd.v
             found == FilterEq(df.rows, "Nombre", nombre_mina)
         IN  IF found = <<>>
             THEN [raised |-> "IndexError", children |-> PanelDefault]
             ELSE LET mina_info == found[Len(found)]
                      link == mina_info.cell["Link"].v
                  IN  [raised |-> "none",
                       children |->
                         [kind  |-> "detail",
                          index |-> mina_info.index,
                          info  |-> [c \in cols_necesarias \ {"Link"} |-> mina_info.cell[c].v],
                          link  |-> IF link # No_disponible /\ startswith(link, s_http)
                                    THEN "dcc.Link" ELSE "html.Span"]]

\* display_click_data: the new children of the panel, or the exception raised
display_click_data(df, cd) ==
    IF ~cd.some THEN [raised |-> "none", children |-> PanelDefault]
    ELSE LET nombre_mina == cd.v
             found == FilterEq(df.rows, "Nombre", nombre_mina)
         IN  IF found = <<>>
             THEN \* .iloc[0] on an empty selection
                  [raised |-> "IndexError", children |-> PanelDefault]
             ELSE LET mina_info == found[1]
                      link == mina_info.cell["Link"].v
                  IN  [raised |-> "none",
                       children |->
                         [kind  |-> "detail",
                          index |-> mina_info.index,
                          info  |-> [c \in cols_necesarias \ {"Link"} |-> mina_info.cell[c].v],
                          link  |-> IF link # No_disponible /\ startswith(link, s_http)
                                    THEN "dcc.Link" ELSE "html.Span"]]

-----------------------------------------------------------------------------
(* The values the model draws its inputs from *)

n_Ab == <<"A", "b">>
n_aDot == <<"a", ".">>
r_Cusco == <<"C", "u", "s", "c", "o">>
r_Puno == <<"P", "u", "n", "o">>
m_Cu == <<"C", "u">>
m_Au == <<"A", "u">>
t_A == <<"A">>
t_B == <<"B">>
l_http == <<"h", "t", "t", "p", ":", "/", "/", "a">>
l_www == <<"w", "w", "w">>
e_E == <<"E">>

Row(nombre, region, mineral, cliente, link, empresa) ==
    [c \in cols_necesarias |->
        CASE c = "Nombre" -> nombre
          [] c = "Región" -> region
          [] c = "Mineral principal" -> mineral
          [] c = "Tipo Cliente" -> cliente
          [] c = "Link" -> link
          [] c = "Empresa" -> empresa
          [] OTHER -> Str(e_E)]

p_Ab_Cusco == Row(Str(n_Ab), Str(r_Cusco), Str(m_Cu), Str(t_A), Str(l_http), Str(e_E))
p_Ab_Puno == Row(Str(n_Ab), Str(r_Puno), Str(m_Au), NaN, NaN, Str(e_E))
p_aDot == Row(Str(n_aDot), Str(r_Cusco), Str(m_Au), Str(t_B), Str(l_www), NaN)
p_NaN == Row(NaN, Str(r_Puno), Str(m_Cu), Str(t_A), NaN, Str(e_E))

\* the rows the raw tables are made of: two sites of the same name in different
\* regions (one with blank cells), a row without a name
RowPool == { p_Ab_Cusco, p_Ab_Puno, p_NaN }

\* the designated columns a raw table may lack
Drops == { {}, {"Tipo Cliente"}, {"Región"} }

SeqsUpTo(S, n) == UNION { [1..k -> S] : k \in 0..n }

Restrict(f, D) == [c \in D |-> f[c]]

RawTables ==
    { File(cols_necesarias \ d, [i \in 1..Len(rs) |-> Restrict(rs[i], cols_necesarias \ d)]) :
        rs \in SeqsUpTo(RowPool, MaxRows), d \in Drops }

GeoRow(row, coord) ==
    [c \in cols_necesarias \cup {"Ubicación", "Latitud", "Longitud"} |->
        CASE c = "Ubicación" -> Ubicacion(row)
          [] c = "Latitud" -> coord[1]
          [] c = "Longitud" -> coord[2]
          [] OTHER -> row[c]]

\* the rows of an existing geocoded file that hold both coordinates
GeoRowsFull == { GeoRow(r, <<Num(-13), Num(-72)>>) : r \in {p_Ab_Cusco, p_Ab_Puno, p_aDot} }

\* the rows an existing geocoded file is made of: those, and a row holding only the
\* latitude or only the longitude
GeoRowPool ==
    GeoRowsFull \cup { GeoRow(p_aDot, co) : co \in { <<Num(-13), NaN>>, <<NaN, Num(-72)>> } }

\* the designated columns an existing geocoded file may lack
GeoDrops == { {}, {"Link"} }

GeoCols == cols_necesarias \cup {"Ubicación", "Latitud", "Longitud"}

GeoTables ==
    { File(GeoCols \ d, [i \in 1..Len(rs) |-> Restrict(rs[i], GeoCols \ d)]) :
        rs \in SeqsUpTo(GeoRowPool, MaxRows), d \in GeoDrops }

\* what the provider may answer to one call
Replies == { Location(-13, -72), NoMatch, Raises }

-----------------------------------------------------------------------------
(* The program *)

NoCriteria == [region |-> NoneVal, mineral |-> NoneVal, cliente |-> NoneVal, nombre |-> NoneVal]

Init ==
    /\ \/ geoFile = NoFile /\ rawFile \in {NoFile} \cup RawTables
       \/ geoFile \in GeoTables /\ rawFile = NoFile
    /\ pc = "start"
    /\ df_minas = NoDf
    /\ calls = <<>>
    /\ replies = <<>>
    /\ stdout = <<>>
    /\ loads = <<>>
    /\ criteria = NoCriteria
    /\ figure = <<>>
    /\ panel = PanelDefault
    /\ clickData = NoClick
    /\ last = [op |-> "none", raised |-> "none"]

\* Running the module (python mmp.py): line 68 loads the table, lines 72-179 build the
\* first figure and the layout from it, line 289 serves. When load returned None,
\* px.scatter_geo(None, lat="Latitud", ...) raises at line 76 (and df_minas['Región']
\* would at line 121): the import ends there and nothing is served.
\* The state the run is in once the module has been executed:
StartupState(raw, geo, oracle, history) ==
    LET r  == cargar_y_geocodificar_datos(raw, geo, oracle)
        ok == r.raised = "none" /\ r.ret.isdf
    IN  [rawFile   |-> raw,
         geoFile   |-> r.geoFile,
         pc        |-> IF ok THEN "serving" ELSE "crashed",
         df_minas  |-> IF ok THEN r.ret ELSE NoDf,
         calls     |-> r.calls,
         replies   |-> r.replies,
         stdout    |-> r.stdout,
         loads     |-> Append(history,
                         [path |-> r.path, raised |-> r.raised, ncalls |-> Len(r.calls),
                          rawBefore |-> raw.exists, geoBefore |-> geo.exists,
                          geoAfter |-> r.geoFile.exists]),
         criteria  |-> NoCriteria,
         figure    |-> IF ok THEN r.ret.rows ELSE <<>>,
         panel     |-> PanelDefault,
         clickData |-> NoClick,
         last      |-> [op |-> "startup",
                        raised |-> IF r.raised # "none" THEN r.raised
                                   ELSE IF r.ret.isdf THEN "none" ELSE "ValueError"]]

Startup(oracle) ==
    /\ pc = "start"
    /\ LET s == StartupState(rawFile, geoFile, oracle, loads)
       IN  /\ rawFile' = s.rawFile
           /\ geoFile' = s.geoFile
           /\ pc' = s.pc
           /\ df_minas' = s.df_minas
           /\ calls' = s.calls
           /\ replies' = s.replies
           /\ stdout' = s.stdout
           /\ loads' = s.loads
           /\ criteria' = s.criteria
           /\ figure' = s.figure
           /\ panel' = s.panel
           /\ clickData' = s.clickData
           /\ last' = s.last

\* The process ends (it crashed, or the server was stopped) and the program is run again.
Restart ==
    /\ pc \in {"serving", "crashed"}
    /\ Len(loads) < MaxRuns
    /\ pc' = "start"
    /\ df_minas' = NoDf
    /\ calls' = <<>>
    /\ replies' = <<>>
    /\ stdout' = <<>>
    /\ criteria' = NoCriteria
    /\ figure' = <<>>
    /\ panel' = PanelDefault
    /\ clickData' = NoClick
    /\ last' = [op |-> "none", raised |-> "none"]
    /\ UNCHANGED <<rawFile, geoFile, loads>>

\* A filter input changes to c and Dash calls update_map; an exception leaves the
\* figure as it was (the callback's response is an error).
UpdateMap(c) ==
    /\ pc = "serving"
    /\ LET r == update_map(df_minas, c)
       IN  /\ figure' = IF r.raised = "none" THEN r.dff ELSE figure
           /\ last' = [op |-> "update_map", raised |-> r.raised]
    /\ criteria' = c
    /\ UNCHANGED <<rawFile, geoFile, pc, df_minas, calls, replies, stdout, loads, panel, clickData>>

\* Dash calls display_click_data with cd; an exception leaves the panel as it was.
Click(cd) ==
    /\ pc = "serving"
    /\ LET r == display_click_data(df_minas, cd)
       IN  /\ panel' = IF r.raised = "none" THEN r.children ELSE panel
           /\ last' = [op |-> "display_click_data", raised |-> r.raised]
    /\ clickData' = cd
    /\ UNCHANGED <<rawFile, geoFile, pc, df_minas, calls, replies, stdout, loads, criteria, figure>>

\* the user clicks the i-th point drawn: customdata is that row's Nombre
ClickPoint(i) ==
    /\ i \in 1..Len(figure)
    /\ Click(ClickOn(figure[i].cell["Nombre"].v, figure[i].index))

\* the filter inputs the program-level specification draws from
CriteriaSmall ==
    { [region |-> r, mineral |-> NoneVal, cliente |-> NoneVal, nombre |-> NoneVal] :
        r \in {NoneVal, Some(r_Cusco), Some(r_Puno)} }

\* clickData that does not come from a drawn point: None (the first call of the
\* callback), a request naming a site the table does not hold, one naming a site it may hold
ClickInputs == { NoClick, ClickOn(<<"z">>, -1), ClickOn(n_Ab, -1) }

OracleFor(raw, geo) ==
    [1..(IF geo.exists \/ ~raw.exists THEN 0 ELSE Len(raw.rows)) -> Replies]

StartupStep == \E oracle \in OracleFor(rawFile, geoFile) : Startup(oracle)
UpdateMapStep == \E c \in CriteriaSmall : UpdateMap(c)
ClickPointStep == \E i \in 1..MaxRows + 1 : ClickPoint(i)
ClickDataStep == \E cd \in ClickInputs : Click(cd)

Next ==
    \/ StartupStep
    \/ Restart
    \/ UpdateMapStep
    \/ ClickPointStep
    \/ ClickDataStep

Spec == Init /\ [][Next]_vars

-----------------------------------------------------------------------------
(* The filter alone: a session on a geocoded table, and its first filter change,    *)
(* drawn from all four inputs.  update_map reads only df_minas, which no callback   *)
(* changes, so the first call of a session stands for every call.                   *)

\* the characters of a name query: letters of either case and regex metacharacters
QueryChars == {"a", "B", ".", "$", "("}

Queries == SeqsUpTo(QueryChars, MaxQueryLen)

CriteriaAll ==
    { [region |-> r, mineral |-> m, cliente |-> t, nombre |-> q] :
        r \in {NoneVal, Some(r_Cusco), Some(r_Puno)},
        m \in {NoneVal, Some(m_Cu)},
        t \in {NoneVal, Some(t_A)},
        q \in {NoneVal} \cup { Some(x) : x \in Queries } }

FilterTables ==
    { File(GeoCols, rs) : rs \in SeqsUpTo(GeoRowsFull, MaxRows) }

InitFilter ==
    \E g \in FilterTables :
        LET s == StartupState(NoFile, g, <<>>, <<>>)
        IN  /\ rawFile = s.rawFile
            /\ geoFile = s.geoFile
            /\ pc = s.pc
            /\ df_minas = s.df_minas
            /\ calls = s.calls
            /\ replies = s.replies
            /\ stdout = s.stdout
            /\ loads = s.loads
            /\ criteria = s.criteria
            /\ figure = s.figure
            /\ panel = s.panel
            /\ clickData = s.clickData
            /\ last = s.last

FirstUpdateMap(c) ==
    /\ last.op = "startup"
    /\ UpdateMap(c)

NextFilter == \E c \in CriteriaAll : FirstUpdateMap(c)

SpecFilter == InitFilter /\ [][NextFilter]_vars

-----------------------------------------------------------------------------
(* Properties *)

\* the load of the current run
LastLoad == loads[Len(loads)]
Loaded == pc # "start" /\ loads # <<>>

Range(f) == { f[i] : i \in DOMAIN f }

\* the index labels of the rows of a frame, in order
Indices(rows) == [j \in 1..Len(rows) |-> rows[j].index]

\* a record satisfies every criteria field that is set
Satisfies(r, c) ==
    /\ c.region.some => r.cell["Región"].v = c.region.v
    /\ c.mineral.some => r.cell["Mineral principal"].v = c.mineral.v
    /\ c.cliente.some => r.cell["Tipo Cliente"].v = c.cliente.v

\* text holds q as a literal contiguous substring, case ignored
ContainsLiteral(text, q) ==
    \E i \in 0..(Len(text) - Len(q)) :
        \A k \in 1..Len(q) : lower(text[i + k]) = lower(q[k])

\* C1: with no name query, update_map draws exactly the records of df_minas that equal
\* the criteria in every field that is set (region AND mineral AND client type), in
\* their order in df_minas; with no field set it draws df_minas itself.
C1_FilterExact ==
    (last.op = "update_map" /\ ~criteria.nombre.some) =>
        LET Test(r) == Satisfies(r, criteria)
        IN  /\ last.raised = "none"
            /\ figure = SelectSeq(df_minas.rows, Test)
            /\ (criteria = NoCriteria => figure = df_minas.rows)

\* C1 witness: region and mineral both set, some records kept and some dropped
C1_Witness ==
    /\ last.op = "update_map"
    /\ ~criteria.nombre.some
    /\ criteria.region.some /\ criteria.mineral.some
    /\ Len(figure) > 0
    /\ Len(figure) < Len(df_minas.rows)
    /\ \E j \in 1..Len(df_minas.rows) :
          /\ df_minas.rows[j].cell["Región"].v = criteria.region.v
          /\ df_minas.rows[j].cell["Mineral principal"].v # criteria.mineral.v

\* C2 as stated: for every non-empty name query q, update_map never fails and keeps a
\* record exactly when its lower-cased name holds lower-cased q as a literal substring.
C2_LiteralSubstring ==
    (last.op = "update_map" /\ Truthy(criteria.nombre)) =>
        LET Test(r) == Satisfies(r, criteria) /\ ContainsLiteral(r.cell["Nombre"].v, criteria.nombre.v)
        IN  /\ last.raised = "none"
            /\ figure = SelectSeq(df_minas.rows, Test)

\* C3 as stated: a click naming no record of df_minas raises nothing and renders the
\* default panel.
C3_MissRendersDefault ==
    (/\ last.op = "display_click_data"
     /\ clickData.some
     /\ \A j \in 1..Len(df_minas.rows) : df_minas.rows[j].cell["Nombre"].v # clickData.v) =>
        /\ last.raised = "none"
        /\ panel = PanelDefault

\* C4: a run that finds neither file makes no geocoding call, writes no file, has no
\* record set, prints the message naming the raw file's path, and ends at start-up:
\* no callback is ever served by it.
C4_MissingBaseFile ==
    (Loaded /\ ~LastLoad.rawBefore /\ ~LastLoad.geoBefore) =>
        /\ calls = <<>>
        /\ ~geoFile.exists /\ ~rawFile.exists
        /\ ~df_minas.isdf
        /\ \E i \in 1..Len(stdout) : stdout[i].ruta = ruta_excel
        /\ pc = "crashed"
        /\ last.op = "startup"
        /\ figure = <<>>

\* C4 witness: such a run has ended
C4_Witness ==
    /\ Loaded /\ ~LastLoad.rawBefore /\ ~LastLoad.geoBefore
    /\ pc = "crashed"
    /\ LastLoad.path = "missing"

\* C5: on either path the records of df_minas are exactly the rows of the table read
\* (as the geocoded file holds it) that have both Latitud and Longitud, in table order.
C5_ExactlyTheLocated ==
    pc = "serving" =>
        LET src == geoFile.rows
            idx == Indices(df_minas.rows)
            located == { i \in 1..Len(src) : ~src[i]["Latitud"].na /\ ~src[i]["Longitud"].na }
        IN  /\ Range(idx) = { i - 1 : i \in located }
            /\ \A j, k \in 1..Len(idx) : j < k => idx[j] < idx[k]
            /\ \A j \in 1..Len(idx) : \A c \in {"Latitud", "Longitud"} :
                  /\ ~df_minas.rows[j].cell[c].na
                  /\ idx[j] + 1 \in located => df_minas.rows[j].cell[c].v = src[idx[j] + 1][c].v

\* C5 witness: a table with a located row after a row that has only one coordinate
C5_Witness ==
    /\ pc = "serving"
    /\ Len(df_minas.rows) > 0
    /\ \E i \in 1..Len(geoFile.rows) :
          /\ geoFile.rows[i]["Latitud"].na # geoFile.rows[i]["Longitud"].na
          /\ \E k \in (i + 1)..Len(geoFile.rows) :
                ~geoFile.rows[k]["Latitud"].na /\ ~geoFile.rows[k]["Longitud"].na

\* every designated field of every record of df_minas is a non-empty text, and is the
\* sentinel where the source cell was blank or the source table lacks the column
Normalized ==
    \A j \in 1..Len(df_minas.rows) : \A c \in cols_necesarias :
        LET cell == df_minas.rows[j].cell[c]
            src  == geoFile.rows[df_minas.rows[j].index + 1]
        IN  /\ ~cell.na
            /\ cell.v # <<>>
            /\ (c \notin geoFile.cols => cell.v = No_disponible)
            /\ (c \in geoFile.cols /\ src[c].na => cell.v = No_disponible)
            /\ (c \in geoFile.cols /\ ~src[c].na => cell.v = src[c].v)

\* C6 as stated: whenever a source table exists, load returns records whose designated
\* fields are normalized, and a designated column the table lacks causes no error.
C6_SentinelNormalization ==
    (Loaded /\ (LastLoad.rawBefore \/ LastLoad.geoBefore)) =>
        /\ last.raised # "KeyError"
        /\ pc = "serving"
        /\ Normalized

\* C7: when the lookup of a record fails (no match, or the provider raises), every
\* record is still looked up, load succeeds, the failed record is in the saved table
\* without coordinates, and it is not among the records load returns.
C7_FailureIsLocal ==
    (Loaded /\ \E i \in 1..Len(replies) : replies[i].kind # "location") =>
        /\ Len(calls) = Len(rawFile.rows)
        /\ pc = "serving" /\ df_minas.isdf
        /\ geoFile.exists
        /\ Len(geoFile.rows) = Len(rawFile.rows)
        /\ \A i \in 1..Len(replies) :
              /\ \A c \in rawFile.cols : geoFile.rows[i][c] = rawFile.rows[i][c]
              /\ replies[i].kind # "location" =>
                    /\ geoFile.rows[i]["Latitud"].na /\ geoFile.rows[i]["Longitud"].na
                    /\ (i - 1) \notin Range(Indices(df_minas.rows))
              /\ replies[i].kind = "location" =>
                    (i - 1) \in Range(Indices(df_minas.rows))

\* C7 witness: the first lookup raised, the second found the site
C7_Witness ==
    /\ pc = "serving"
    /\ Len(replies) >= 2
    /\ replies[1].kind = "raise"
    /\ replies[2].kind = "location"
    /\ Len(df_minas.rows) > 0

\* C8: a load that geocoded has written the geocoded file, and every later load reads
\* that file and calls the provider zero times.
C8_CacheFirst ==
    \A i \in 1..Len(loads) :
        (loads[i].path = "raw" /\ loads[i].raised = "none") =>
            /\ loads[i].geoAfter
            /\ geoFile.exists
            /\ \A j \in (i + 1)..Len(loads) :
                  /\ loads[j].geoBefore
                  /\ loads[j].path = "geocoded"
                  /\ loads[j].ncalls = 0
            /\ (i < Len(loads) /\ pc # "start") => calls = <<>>

\* C8 witness: the first run geocoded and one lookup failed; a second run has loaded
C8_Witness ==
    /\ Len(loads) >= 2
    /\ pc = "serving"
    /\ loads[1].path = "raw"
    /\ loads[1].ncalls > 0
    /\ \E i \in 1..Len(geoFile.rows) : geoFile.rows[i]["Latitud"].na
    /\ loads[2].ncalls = 0

\* C9 as stated: within one run no location string is passed to the provider twice.
C9_OncePerLocation ==
    \A i, j \in 1..Len(calls) : i # j => calls[i] # calls[j]

\* the text of a raw cell as astype(str) gives it
CellText(cell) == IF cell.na THEN s_nan ELSE cell.v

\* C9 amended: within one run that geocodes, geocode is called exactly once for each
\* record of the raw table, in table order, with that record's location string
\* (Nombre + ", " + Región + ", Perú"); records sharing a location string are each
\* looked up.
C9_OncePerRecord ==
    (Loaded /\ LastLoad.path = "raw" /\ LastLoad.raised = "none") =>
        /\ Len(calls) = Len(rawFile.rows)
        /\ \A i \in 1..Len(calls) :
              calls[i] = CellText(rawFile.rows[i]["Nombre"]) \o <<",", " ">>
                         \o CellText(rawFile.rows[i]["Región"]) \o <<",", " ", "P", "e", "r", "ú">>

\* C9 witness: two records with the same location string, each looked up
C9_Witness ==
    /\ Len(calls) = 2
    /\ calls[1] = calls[2]
    /\ rawFile.rows[1]["Nombre"] = rawFile.rows[2]["Nombre"]

\* C10: when records share the clicked name, the lookup does not fail and the panel
\* shows the first of them in the order of df_minas, whatever the filter shows and
\* whichever of their points was clicked.
C10_FirstInStoredOrder ==
    (/\ last.op = "display_click_data"
     /\ clickData.some
     /\ \E j \in 1..Len(df_minas.rows) : df_minas.rows[j].cell["Nombre"].v = clickData.v) =>
        /\ last.raised = "none"
        /\ panel.kind = "detail"
        /\ \E k \in 1..Len(df_minas.rows) :
              /\ df_minas.rows[k].cell["Nombre"].v = clickData.v
              /\ \A j \in 1..(k - 1) : df_minas.rows[j].cell["Nombre"].v # clickData.v
              /\ panel.index = df_minas.rows[k].index
              /\ \A c \in cols_necesarias \ {"Link"} : panel.info[c] = df_minas.rows[k].cell[c].v

\* C10 witness: the filter hides the first record of that name, the drawn second one
\* is clicked, and the panel shows the first
C10_Witness ==
    /\ last.op = "display_click_data"
    /\ last.raised = "none"
    /\ clickData.point >= 0
    /\ panel.kind = "detail"
    /\ panel.index # clickData.point
    /\ \A j \in 1..Len(figure) : figure[j].index # panel.index

====
